---------------------------- MODULE Spec2Model ----------------------------
(***************************************************************************)
(* talk_base::SystemInfo (talk/base/systeminfo.cc).                        *)
(*                                                                         *)
(* The object's fields are the variables ending in an underscore.  The     *)
(* platform branch (#if WIN32 / OSX || IOS / LINUX || ANDROID) and the     *)
(* CPU_X86 / CPU_ARM switch are fixed per behaviour.  Every operating      *)
(* system or hardware source the code reads is a field of env, holding     *)
(* what that source answers when it is asked.                              *)
(*                                                                         *)
(* Machine integers.  A 32-bit quantity that the code reinterprets between *)
(* unsigned and signed (DWORD, uint32_t, a cpuid register) is held as two  *)
(* 16-bit words [hi, lo]; a uint64_t that the code narrows to int carries, *)
(* in addition, the upper 32 bits as the field high.  A plain int is an    *)
(* integer.                                                                *)
(***************************************************************************)
EXTENDS Integers, Sequences, FiniteSets, TLC

VARIABLES
  platform,        \* "WIN32", "OSX", "IOS" or "LINUX" (LINUX || ANDROID)
  cpu,             \* "X86" (CPU_X86) or "ARM" (CPU_ARM)
  env,             \* the answers of the platform sources
  constructed,     \* the constructor body has run
  physical_cpus_,
  logical_cpus_,
  cache_size_,
  cpu_speed_,
  memory_,
  machine_model_,
  cpu_vendor_,
  consulted,       \* cache-size sources the constructor asked, in order
  ret,             \* per accessor: the last call's result
  gpu,             \* the caller's GpuInfo struct and the last GetGpuInfo call
  thr              \* per thread: the position inside a lock-free accessor call

vars == <<platform, cpu, env, constructed, physical_cpus_, logical_cpus_,
          cache_size_, cpu_speed_, memory_, machine_model_, cpu_vendor_,
          consulted, ret, gpu, thr>>

fields == <<physical_cpus_, logical_cpus_, cache_size_, cpu_speed_, memory_,
            machine_model_, cpu_vendor_>>

-----------------------------------------------------------------------------
(* Machine integers *)

\* 2^16: the radix of the two words of a 32-bit quantity.
Radix == 65536

\* 2^15: a high word at or above it has bit 31 of the 32-bit quantity set.
SignWord == 32768

\* The 32-bit quantity n (0 <= n < 2^31) as words.
U32(n) == [hi |-> n \div Radix, lo |-> n % Radix]

\* A uint64_t with upper half h and lower half U32(n).
U64(h, n) == [high |-> h, hi |-> n \div Radix, lo |-> n % Radix]

\* static_cast<int>(x) of a uint32_t / DWORD / uint64_t: the low 32 bits,
\* read as two's complement.
ToInt(w) ==
  IF w.hi >= SignWord THEN (w.hi - Radix) * Radix + w.lo
                      ELSE w.hi * Radix + w.lo

\* x >> 16 of an int held in a register: the arithmetic shift keeps the sign.
Sar16(w) == IF w.hi >= SignWord THEN w.hi - Radix ELSE w.hi

\* static_cast<uint32>(a) >= 0x80000006, a being a register.
ExtLeafHi == 32768
ExtLeafLo == 6
AtLeastExtLeaf6(w) == w.hi > ExtLeafHi \/ (w.hi = ExtLeafHi /\ w.lo >= ExtLeafLo)

\* Kilobytes to bytes.
KB == 1024

\* Largest and smallest multiplicand whose product with KB is still an int.
MaxKB == 2097151
MinKB == -2097152

\* The low 32 bits of k * KB read as two's complement (k of any size).
WrapKB(k) ==
  LET low == k % (2 * (MaxKB + 1))
  IN  IF low > MaxKB THEN (low - 2 * (MaxKB + 1)) * KB ELSE low * KB

\* What a signed overflow may leave behind besides the wrapped product.
OverflowInts == {-1, 0, 1}

\* cache_size_ *= 1024 on an int: the product, or, the product not being an
\* int, undefined behaviour: any of the outcomes.
TimesKB(k) ==
  IF k >= MinKB /\ k <= MaxKB THEN {k * KB} ELSE {WrapKB(k)} \cup OverflowInts

-----------------------------------------------------------------------------
(* The platform sources *)

\* A fallible source: it answers val, or fails and answers nothing.
Ok(v)   == [ok |-> TRUE,  val |-> v]
Fail(v) == [ok |-> FALSE, val |-> v]

\* A ProcCpuInfo getter (bool Get...(int* out)): out is written on success.
ProcGet(res, old) == IF res.ok THEN res.val ELSE old

\* #elif defined(OSX) || defined(IOS): the sysctlbyname branches.
Sysctl(p) == p \in {"OSX", "IOS"}

\* Every source unavailable.
NoEnv == [
  dwNumberOfProcessors  |-> U32(1),                              \* GetSystemInfo
  glpi                  |-> [status |-> "missing", infos |-> <<>>],
  RegOpenKeyEx          |-> FALSE,
  RegQueryValueEx       |-> Fail(U32(0)),                        \* "~Mhz"
  GlobalMemoryStatusEx  |-> Fail(0),                             \* ullTotalPhys
  d3d                   |-> "no_d3d9_dll",
  identifier            |-> [DeviceName |-> "", Description |-> "", VendorId |-> 0,
                             DeviceId |-> 0, Driver |-> "",
                             DriverVersion |-> [HighPart |-> U32(0),
                                                LowPart  |-> U32(0)]],
  hw_physicalcpu_max    |-> Fail(U32(0)),
  hw_logicalcpu_max     |-> Fail(U32(0)),
  hw_l3cachesize        |-> Fail(U64(0, 0)),
  hw_l2cachesize        |-> Fail(U64(0, 0)),
  hw_cpufrequency_max   |-> Fail([mhz |-> 0, hz |-> 0]),
  hw_memsize            |-> Fail(0),
  hw_model              |-> Fail(""),
  iokit_vendor_id       |-> [type |-> "absent", val |-> 0],
  iokit_device_id       |-> [type |-> "absent", val |-> 0],
  iokit_model           |-> [type |-> "absent", val |-> ""],
  LoadFromSystem        |-> FALSE,
  GetNumCpus            |-> Fail(0),
  GetNumPhysicalCpus    |-> Fail(0),
  cpu_MHz               |-> Fail(0),
  cache_size            |-> Fail(0),
  ReadCpuMaxFreq        |-> 0,
  SC_PHYS_PAGES         |-> -1,
  SC_PAGESIZE           |-> -1,
  cpuid_0               |-> [ebx |-> <<0, 0, 0, 0>>, edx |-> <<0, 0, 0, 0>>,
                             ecx |-> <<0, 0, 0, 0>>],
  cpuid_80000000_eax    |-> U32(0),
  cpuid_80000006_ecx    |-> U32(0)
]

-----------------------------------------------------------------------------
(* SystemInfo::SystemInfo *)

\* The loop over infos[] of GetProcessorInformation: the number of
\* RelationProcessorCore entries.
RECURSIVE CountCores(_)
CountCores(infos) ==
  IF infos = <<>> THEN 0
  ELSE (IF Head(infos).Relationship = "RelationProcessorCore" THEN 1 ELSE 0)
       + CountCores(Tail(infos))

\* The same loop's cache_size, started at cache_size: each RelationCache
\* entry's size as an int replaces it when it is not smaller.
RECURSIVE LargestCache(_, _)
LargestCache(infos, cache_size) ==
  IF infos = <<>> THEN cache_size
  ELSE LET next_cache_size == ToInt(Head(infos).Size)
       IN  LargestCache(Tail(infos),
             IF Head(infos).Relationship = "RelationCache"
                /\ next_cache_size >= cache_size
             THEN next_cache_size ELSE cache_size)

\* GetProcessorInformation(physical_cpus, cache_size): both are left alone
\* when GetLogicalProcessorInformation is missing or fails.
GetProcessorInformation(glpi, physical_cpus, cache_size) ==
  IF glpi.status # "ok"
  THEN [physical_cpus |-> physical_cpus, cache_size |-> cache_size]
  ELSE [physical_cpus |-> CountCores(glpi.infos),
        cache_size    |-> LargestCache(glpi.infos, 0)]

\* if (physical_cpus_ <= 0) physical_cpus_ = logical_cpus_;
PhysicalOrLogical(physical_cpus, logical_cpus) ==
  IF physical_cpus <= 0 THEN logical_cpus ELSE physical_cpus

\* The WIN32 section, from the member initialisers (1, 1, 0, 0).
Win32Section(e) ==
  LET logical == ToInt(e.dwNumberOfProcessors)
      pi      == GetProcessorInformation(e.glpi, 1, 0)
  IN  { [physical_cpus |-> PhysicalOrLogical(pi.physical_cpus, logical),
         logical_cpus  |-> logical,
         cache_size    |-> pi.cache_size,
         cpu_speed     |-> 0,
         asked         |-> <<"GetLogicalProcessorInformation">>] }

\* "hw.l2cachesize" asked whatever "hw.l3cachesize" answered.
AskL2Always(cache_size) == TRUE

\* if (!cache_size_) { ... "hw.l2cachesize" ... }
AskL2(cache_size) == cache_size = 0

\* The OSX || IOS section.
OsxSection(e) ==
  LET l3 == IF e.hw_l3cachesize.ok THEN ToInt(e.hw_l3cachesize.val) ELSE 0
      l2 == IF e.hw_l2cachesize.ok THEN ToInt(e.hw_l2cachesize.val) ELSE 0
  IN  { [physical_cpus |-> IF e.hw_physicalcpu_max.ok
                           THEN ToInt(e.hw_physicalcpu_max.val) ELSE 1,
         logical_cpus  |-> IF e.hw_logicalcpu_max.ok
                           THEN ToInt(e.hw_logicalcpu_max.val) ELSE 1,
         cache_size    |-> IF AskL2(l3) THEN l2 ELSE l3,
         cpu_speed     |-> 0,
         asked         |-> IF AskL2(l3)
                           THEN <<"hw.l3cachesize", "hw.l2cachesize">>
                           ELSE <<"hw.l3cachesize">>] }

\* int max_freq = ReadCpuMaxFreq(); if (max_freq > 0) cpu_speed_ = max_freq / 1000;
KHzPerMHz == 1000
MaxFreqSpeed(max_freq, cpu_speed) ==
  IF max_freq > 0 THEN max_freq \div KHzPerMHz ELSE cpu_speed

\* The LINUX || ANDROID section; c is "X86" or "ARM".
LinuxSection(c, e) ==
  LET loaded == e.LoadFromSystem
      x86    == loaded /\ c # "ARM"
      mhz    == IF x86 THEN ProcGet(e.cpu_MHz, 0) ELSE 0
      kb     == IF x86 THEN ProcGet(e.cache_size, 0) ELSE 0
  IN  { [physical_cpus |-> IF loaded THEN ProcGet(e.GetNumPhysicalCpus, 1) ELSE 1,
         logical_cpus  |-> IF loaded THEN ProcGet(e.GetNumCpus, 1) ELSE 1,
         cache_size    |-> bytes,
         cpu_speed     |-> MaxFreqSpeed(e.ReadCpuMaxFreq, mhz),
         asked         |-> IF x86 THEN <<"cache size">> ELSE <<>>]
        : bytes \in IF x86 THEN TimesKB(kb) ELSE {0} }

\* cache_size_ = (cpu_info[2] >> 16) * 1024;
CpuidCacheSize(ecx) == Sar16(ecx) * KB

\* if (cache_size_ == 0) under #ifdef CPU_X86
AskCpuid(c, cache_size) == c = "X86" /\ cache_size = 0

\* The CPU_X86 section that ends the constructor, applied to the outcome r
\* of the platform section.
CpuidSection(c, e, r) ==
  IF ~AskCpuid(c, r.cache_size) THEN r
  ELSE [r EXCEPT !.asked = Append(@, "cpuid"),
                 !.cache_size = IF AtLeastExtLeaf6(e.cpuid_80000000_eax)
                                THEN CpuidCacheSize(e.cpuid_80000006_ecx)
                                ELSE @]

\* The states the constructor can leave, for platform p and cpu c.
Constructor(p, c, e) ==
  LET section == CASE p = "WIN32" -> Win32Section(e)
                   [] Sysctl(p)   -> OsxSection(e)
                   [] OTHER       -> LinuxSection(c, e)
  IN  { CpuidSection(c, e, r) : r \in section }

-----------------------------------------------------------------------------
(* The accessors *)

Accessors == {"GetMaxCpus", "GetMaxPhysicalCpus", "GetCurCpus", "GetCpuVendor",
              "GetCpuCacheSize", "GetMaxCpuSpeed", "GetCurCpuSpeed",
              "GetMemorySize", "GetMachineModel"}

\* No accessor has been called.  val has the type of the accessor's result;
\* again: a call after the first one asked a platform source.
NoRet == [a \in Accessors |->
           [called |-> FALSE, again |-> FALSE,
            val |-> CASE a = "GetCpuVendor"    -> <<>>
                      [] a = "GetMachineModel" -> ""
                      [] OTHER                 -> 0]]

\* ret after accessor a returned v; q: the call asked a platform source.
Returned(a, v, q) ==
  [ret EXCEPT ![a] = [called |-> TRUE, val |-> v,
                      again |-> @.again \/ (@.called /\ q)]]

\* The sparse-ones loop of GetCurCpus: process_mask &= (process_mask - 1)
\* clears the lowest set bit; cur_cpus counts the rounds.
RECURSIVE LowestBit(_)
LowestBit(mask) == IF mask % 2 = 1 THEN 1 ELSE 2 * LowestBit(mask \div 2)

RECURSIVE SparseOnes(_)
SparseOnes(process_mask) ==
  IF process_mask = 0 THEN 0
  ELSE 1 + SparseOnes(process_mask - LowestBit(process_mask))

\* cur_cpus of GetCurCpus.  now is what the volatile source answers at the
\* call: the affinity mask (WIN32; whatever process_mask holds when
\* GetProcessAffinityMask fails), "hw.ncpu" (OSX), or
\* sysconf(_SC_NPROCESSORS_ONLN) (LINUX).
CurCpus(p, now) ==
  CASE p = "WIN32" -> SparseOnes(now)
    [] Sysctl(p)   -> IF now.ok THEN ToInt(now.val) ELSE 1
    [] OTHER       -> now

\* if (cpu_speed_) return cpu_speed_;   and the like
Cached(field) == field # 0

\* The body of GetMaxCpuSpeed past the cache test: the value stored in
\* cpu_speed_.
MaxCpuSpeedLookup(p, e) ==
  CASE p = "WIN32" -> IF e.RegOpenKeyEx /\ e.RegQueryValueEx.ok
                      THEN ToInt(e.RegQueryValueEx.val) ELSE -1
    [] Sysctl(p)   -> IF e.hw_cpufrequency_max.ok
                      THEN e.hw_cpufrequency_max.val.mhz ELSE -1
    [] OTHER       -> 0

\* The LINUX branch of GetMemorySize: the product, then the test for < 0.
PagesTimesSize(e) == e.SC_PHYS_PAGES * e.SC_PAGESIZE
NegativeToError(m) == IF m < 0 THEN -1 ELSE m

\* The OSX branch: sysctlbyname writes into memory_ itself; old is memory_
\* before the call.
MemsizeInto(e, old) == IF e.hw_memsize.ok THEN e.hw_memsize.val ELSE old
ErrorOrZeroToError(e, m) == IF ~e.hw_memsize.ok \/ m = 0 THEN -1 ELSE m

\* The WIN32 branch.
TotalPhys(e) ==
  IF e.GlobalMemoryStatusEx.ok THEN e.GlobalMemoryStatusEx.val ELSE -1

\* The body of GetMemorySize past the cache test: the value left in memory_.
MemorySizeLookup(p, e, old) ==
  CASE p = "WIN32" -> TotalPhys(e)
    [] Sysctl(p)   -> ErrorOrZeroToError(e, MemsizeInto(e, old))
    [] OTHER       -> NegativeToError(PagesTimesSize(e))

\* The body of GetMachineModel past the cache test.
NotAvailable == "Not available"
MachineModelLookup(p, e) ==
  IF Sysctl(p) THEN (IF e.hw_model.ok THEN e.hw_model.val ELSE "")
  ELSE NotAvailable

\* std::string(char*): the bytes before the first NUL.
RECURSIVE CString(_)
CString(bytes) ==
  IF bytes = <<>> \/ Head(bytes) = 0 THEN <<>>
  ELSE <<Head(bytes)>> \o CString(Tail(bytes))

\* "ARM" in ASCII.
ArmName == <<65, 82, 77>>

\* The body of GetCpuVendor past the cache test: the registers of leaf 0 in
\* the order ebx, edx, ecx, followed by a zero word.
CpuVendorLookup(c, e) ==
  IF c = "X86"
  THEN CString(e.cpuid_0.ebx \o e.cpuid_0.edx \o e.cpuid_0.ecx \o <<0, 0, 0, 0>>)
  ELSE ArmName

-----------------------------------------------------------------------------
(* Actions *)

others == <<consulted, gpu, thr>>

\* SystemInfo::SystemInfo()
Construct ==
  /\ ~constructed
  /\ \E r \in Constructor(platform, cpu, env) :
       /\ physical_cpus_' = r.physical_cpus
       /\ logical_cpus_' = r.logical_cpus
       /\ cache_size_' = r.cache_size
       /\ cpu_speed_' = r.cpu_speed
       /\ consulted' = r.asked
  /\ constructed' = TRUE
  /\ UNCHANGED <<platform, cpu, env, memory_, machine_model_, cpu_vendor_,
                 ret, gpu, thr>>

GetMaxCpus ==
  /\ constructed
  /\ ret' = Returned("GetMaxCpus", logical_cpus_, FALSE)
  /\ UNCHANGED <<platform, cpu, env, constructed, fields, others>>

GetMaxPhysicalCpus ==
  /\ constructed
  /\ ret' = Returned("GetMaxPhysicalCpus", physical_cpus_, FALSE)
  /\ UNCHANGED <<platform, cpu, env, constructed, fields, others>>

GetCpuCacheSize ==
  /\ constructed
  /\ ret' = Returned("GetCpuCacheSize", cache_size_, FALSE)
  /\ UNCHANGED <<platform, cpu, env, constructed, fields, others>>

GetCpuVendor ==
  /\ constructed
  /\ cpu_vendor_' = IF cpu_vendor_ = <<>> THEN CpuVendorLookup(cpu, env)
                                          ELSE cpu_vendor_
  /\ ret' = Returned("GetCpuVendor", cpu_vendor_',
                     cpu_vendor_ = <<>> /\ cpu = "X86")
  /\ UNCHANGED <<platform, cpu, env, constructed, physical_cpus_,
                 logical_cpus_, cache_size_, cpu_speed_, memory_,
                 machine_model_, others>>

GetMaxCpuSpeed ==
  /\ constructed
  /\ cpu_speed_' = IF Cached(cpu_speed_) THEN cpu_speed_
                                         ELSE MaxCpuSpeedLookup(platform, env)
  /\ ret' = Returned("GetMaxCpuSpeed", cpu_speed_',
                     ~Cached(cpu_speed_) /\ platform # "LINUX")
  /\ UNCHANGED <<platform, cpu, env, constructed, physical_cpus_,
                 logical_cpus_, cache_size_, memory_, machine_model_,
                 cpu_vendor_, others>>

GetMemorySize ==
  /\ constructed
  /\ memory_' = IF Cached(memory_) THEN memory_
                                   ELSE MemorySizeLookup(platform, env, memory_)
  /\ ret' = Returned("GetMemorySize", memory_', ~Cached(memory_))
  /\ UNCHANGED <<platform, cpu, env, constructed, physical_cpus_,
                 logical_cpus_, cache_size_, cpu_speed_, machine_model_,
                 cpu_vendor_, others>>

GetMachineModel ==
  /\ constructed
  /\ machine_model_' = IF machine_model_ # "" THEN machine_model_
                       ELSE MachineModelLookup(platform, env)
  /\ ret' = Returned("GetMachineModel", machine_model_',
                     machine_model_ = "" /\ Sysctl(platform))
  /\ UNCHANGED <<platform, cpu, env, constructed, physical_cpus_,
                 logical_cpus_, cache_size_, cpu_speed_, memory_,
                 cpu_vendor_, others>>

-----------------------------------------------------------------------------
(* What the sources can answer *)

\* Longest infos[] array GetLogicalProcessorInformation fills.
MaxInfos == 2

\* Largest process affinity mask.
MaxMask == 15

Platforms == {"WIN32", "OSX", "IOS", "LINUX"}

\* WIN32 and OSX are x86 builds; IOS (device, simulator) and
\* LINUX || ANDROID are built for either.
Cpus(p) == IF p \in {"WIN32", "OSX"} THEN {"X86"} ELSE {"X86", "ARM"}

\* Processor counts as uint32_t / DWORD, and as int.
Counts32 == {U32(0), U32(1), U32(2), U32(4)}
Counts   == {0, 1, 2, 4}

\* Cache sizes in bytes: 256 KiB and 4 MiB as DWORD.
CacheSizes32 == {U32(0), U32(262144), U32(4194304)}

InfoEntries ==
  [Relationship : {"RelationProcessorCore", "RelationNumaNode"}, Size : {U32(0)}]
  \cup [Relationship : {"RelationCache"}, Size : CacheSizes32 \ {U32(0)}]

Infos == UNION { [1..n -> InfoEntries] : n \in 0..MaxInfos }

GlpiAnswers ==
  {[status |-> "missing", infos |-> <<>>], [status |-> "error", infos |-> <<>>]}
  \cup { [status |-> "ok", infos |-> i] : i \in Infos }

\* A frequency in Hz is mhz * 1000000 + hz with hz < 1000000, so that
\* sysctl_value / 1000000 is mhz: 500 kHz and 2.4 GHz.
Frequencies == {[mhz |-> 0, hz |-> 500000], [mhz |-> 2400, hz |-> 0]}

\* What the volatile source of GetCurCpus can answer at a call.
CurCpusAnswers(p) ==
  CASE p = "WIN32" -> 0..MaxMask
    [] Sysctl(p)   -> {Fail(U32(0))} \cup {Ok(n) : n \in Counts32}
    [] OTHER       -> {-1} \cup Counts

\* What "hw.cpufrequency" can answer at a call.
CurSpeedAnswers == {Fail([mhz |-> 0, hz |-> 0])} \cup {Ok(f) : f \in Frequencies}

-----------------------------------------------------------------------------
(* The volatile accessors *)

GetCurCpus ==
  /\ constructed
  /\ \E now \in CurCpusAnswers(platform) :
       ret' = Returned("GetCurCpus", CurCpus(platform, now), TRUE)
  /\ UNCHANGED <<platform, cpu, env, constructed, fields, others>>

\* OSX reads "hw.cpufrequency"; every other path is return GetMaxCpuSpeed();
GetCurCpuSpeed ==
  /\ constructed
  /\ \E now \in CurSpeedAnswers :
       LET live == Sysctl(platform) /\ now.ok
       IN  /\ cpu_speed_' = IF live \/ Cached(cpu_speed_) THEN cpu_speed_
                            ELSE MaxCpuSpeedLookup(platform, env)
           /\ ret' = Returned("GetCurCpuSpeed",
                              IF live THEN now.val.mhz ELSE cpu_speed_', TRUE)
  /\ UNCHANGED <<platform, cpu, env, constructed, physical_cpus_,
                 logical_cpus_, cache_size_, memory_, machine_model_,
                 cpu_vendor_, others>>

-----------------------------------------------------------------------------
(* Topology: the processor counts under every answer of their sources *)

\* GpuInfo as its constructor leaves it, and no GetGpuInfo call yet.  null:
\* the last call's argument was NULL; written: the members it assigned.
NoGpu == [info |-> [device_name |-> "", description |-> "", vendor_id |-> 0,
                    device_id |-> 0, driver |-> "", driver_version |-> <<>>],
          called |-> FALSE, null |-> FALSE, result |-> FALSE, written |-> {}]

NoThreads == <<>>

\* The member initialisers of SystemInfo::SystemInfo.
Initialisers ==
  /\ constructed = FALSE
  /\ physical_cpus_ = 1
  /\ logical_cpus_ = 1
  /\ cache_size_ = 0
  /\ cpu_speed_ = 0
  /\ memory_ = 0
  /\ machine_model_ = ""
  /\ cpu_vendor_ = <<>>
  /\ consulted = <<>>
  /\ ret = NoRet
  /\ gpu = NoGpu
  /\ thr = NoThreads

TopologyEnvs(p) ==
  CASE p = "WIN32" ->
         { [NoEnv EXCEPT !.dwNumberOfProcessors = n, !.glpi = g]
           : n \in Counts32 \ {U32(0)}, g \in GlpiAnswers }
    [] Sysctl(p) ->
         { [NoEnv EXCEPT !.hw_physicalcpu_max = ph, !.hw_logicalcpu_max = lg]
           : ph \in {Fail(U32(0))} \cup {Ok(n) : n \in Counts32},
             lg \in {Fail(U32(0))} \cup {Ok(n) : n \in Counts32} }
    [] OTHER ->
         { [NoEnv EXCEPT !.LoadFromSystem = ld, !.GetNumPhysicalCpus = ph,
                         !.GetNumCpus = lg]
           : ld \in BOOLEAN,
             ph \in {Fail(0)} \cup {Ok(n) : n \in Counts},
             lg \in {Fail(0)} \cup {Ok(n) : n \in Counts} }

InitTopology ==
  /\ platform \in Platforms
  /\ cpu \in Cpus(platform)
  /\ env \in TopologyEnvs(platform)
  /\ Initialisers

\* The constructor, the accessors of the counts and the accessors that write
\* a field.
NextTopology ==
  \/ Construct
  \/ GetMaxCpus
  \/ GetMaxPhysicalCpus
  \/ GetCurCpus
  \/ GetMaxCpuSpeed
  \/ GetMemorySize
  \/ GetCurCpuSpeed

SpecTopology == InitTopology /\ [][NextTopology]_vars

-----------------------------------------------------------------------------
(* Claims about the processor counts (SpecTopology) *)

Called(a) == ret[a].called

\* C1: GetMaxCpus() >= GetMaxPhysicalCpus() >= 1 after construction and after
\* any accessor calls, whatever the topology sources answered.
C1_MaxAtLeastPhysicalAtLeastOne ==
  /\ constructed => logical_cpus_ >= physical_cpus_ /\ physical_cpus_ >= 1
  /\ Called("GetMaxCpus") /\ Called("GetMaxPhysicalCpus")
       => /\ ret["GetMaxCpus"].val >= ret["GetMaxPhysicalCpus"].val
          /\ ret["GetMaxPhysicalCpus"].val >= 1

\* C5: every GetCurCpus() result is at most GetMaxCpus().
C5_CurAtMostMax ==
  Called("GetCurCpus") => ret["GetCurCpus"].val <= logical_cpus_

\* The physical-count source failed or is unavailable.
PhysicalUndetermined ==
  CASE platform = "WIN32" -> env.glpi.status # "ok"
    [] Sysctl(platform)   -> ~env.hw_physicalcpu_max.ok
    [] OTHER              -> ~env.LoadFromSystem \/ ~env.GetNumPhysicalCpus.ok

\* C9: when the physical core count cannot be determined,
\* GetMaxPhysicalCpus() equals GetMaxCpus().
C9_UndeterminedPhysicalIsLogical ==
  constructed /\ PhysicalUndetermined => physical_cpus_ = logical_cpus_

-----------------------------------------------------------------------------
(* Cache size: the constructor's source chain under every answer (SpecCache) *)

\* Cache sizes as uint64_t: 0, 256 KiB, 4 MiB, 2^31 and 2^32.
CacheSizes64 == {U64(0, 0), U64(0, 262144), U64(0, 4194304),
                 [high |-> 0, hi |-> SignWord, lo |-> 0], U64(1, 0)}

\* "cache size" of /proc/cpuinfo in KB: 0, 256 KiB, 4 MiB, 2 GiB and -1.
CacheSizesKB == {0, 256, 4096, MaxKB + 1, -1}

\* eax of leaf 0x80000000: no extended leaves, up to 0x80000004, 0x80000006
\* and 0x80000008.
MaxExtLeaves == {U32(0), [hi |-> ExtLeafHi, lo |-> 4],
                 [hi |-> ExtLeafHi, lo |-> ExtLeafLo], [hi |-> ExtLeafHi, lo |-> 8]}

\* ecx of leaf 0x80000006: L2 sizes 0, 256 KB, 4096 KB, 32768 KB and 65535 KB
\* in bits 16..31, line size and associativity below.
L2Registers == {U32(0), [hi |-> 256, lo |-> 24640], [hi |-> 4096, lo |-> 0],
                [hi |-> SignWord, lo |-> 0], [hi |-> Radix - 1, lo |-> Radix - 1]}

CpuidEnvs(e) ==
  { [e EXCEPT !.cpuid_80000000_eax = a, !.cpuid_80000006_ecx = c]
    : a \in MaxExtLeaves, c \in L2Registers }

CacheEnvs(p) ==
  CASE p = "WIN32" -> { [NoEnv EXCEPT !.glpi = g] : g \in GlpiAnswers }
    [] Sysctl(p) ->
         { [NoEnv EXCEPT !.hw_l3cachesize = l3, !.hw_l2cachesize = l2]
           : l3 \in {Fail(U64(0, 0))} \cup {Ok(n) : n \in CacheSizes64},
             l2 \in {Fail(U64(0, 0))} \cup {Ok(n) : n \in CacheSizes64} }
    [] OTHER ->
         { [NoEnv EXCEPT !.LoadFromSystem = ld, !.cache_size = kb]
           : ld \in BOOLEAN,
             kb \in {Fail(0)} \cup {Ok(n) : n \in CacheSizesKB} }

InitCache ==
  /\ platform \in Platforms
  /\ cpu \in Cpus(platform)
  /\ env \in UNION { CpuidEnvs(e) : e \in CacheEnvs(platform) }
  /\ Initialisers

NextCache == Construct \/ GetCpuCacheSize

SpecCache == InitCache /\ [][NextCache]_vars

\* The sources of the running build, in priority order.
Chain ==
  (CASE platform = "WIN32" -> <<"GetLogicalProcessorInformation">>
     [] Sysctl(platform)   -> <<"hw.l3cachesize", "hw.l2cachesize">>
     [] OTHER              -> IF cpu # "ARM" /\ env.LoadFromSystem
                              THEN <<"cache size">> ELSE <<>>)
  \o (IF cpu = "X86" THEN <<"cpuid">> ELSE <<>>)

\* The sizes, as int, that source s can yield; a source that fails yields 0.
Yields(s) ==
  CASE s = "GetLogicalProcessorInformation" ->
         IF env.glpi.status # "ok" THEN {0}
         ELSE LET sizes == {0} \cup
                    { ToInt(env.glpi.infos[i].Size) : i \in
                        { k \in DOMAIN env.glpi.infos :
                            env.glpi.infos[k].Relationship = "RelationCache" } }
              IN  { m \in sizes : \A n \in sizes : m >= n }
    [] s = "hw.l3cachesize" ->
         {IF env.hw_l3cachesize.ok THEN ToInt(env.hw_l3cachesize.val) ELSE 0}
    [] s = "hw.l2cachesize" ->
         {IF env.hw_l2cachesize.ok THEN ToInt(env.hw_l2cachesize.val) ELSE 0}
    [] s = "cache size" ->
         TimesKB(IF env.cache_size.ok THEN env.cache_size.val ELSE 0)
    [] OTHER ->
         {IF AtLeastExtLeaf6(env.cpuid_80000000_eax)
          THEN Sar16(env.cpuid_80000006_ecx) * KB ELSE 0}

\* The first non-zero entry of y along chain, 0 when there is none.
RECURSIVE FirstNonZero(_, _)
FirstNonZero(chain, y) ==
  IF chain = <<>> THEN 0
  ELSE IF y[Head(chain)] # 0 THEN y[Head(chain)]
  ELSE FirstNonZero(Tail(chain), y)

\* C6: the cache size is resolved along the chain in priority order: a source
\* is consulted exactly when every earlier source yielded 0, and the result
\* is the first non-zero yield, 0 only when every source yielded 0.
C6_FirstNonZeroSourceWins ==
  constructed =>
    \E y \in [{Chain[i] : i \in DOMAIN Chain}
                -> UNION {Yields(Chain[i]) : i \in DOMAIN Chain}] :
      /\ \A i \in DOMAIN Chain : y[Chain[i]] \in Yields(Chain[i])
      /\ Len(consulted) <= Len(Chain)
      /\ \A i \in DOMAIN Chain :
           /\ i <= Len(consulted) => consulted[i] = Chain[i]
           /\ i <= Len(consulted) <=> \A j \in 1..(i - 1) : y[Chain[j]] = 0
      /\ cache_size_ = FirstNonZero(Chain, y)
      /\ Called("GetCpuCacheSize") => ret["GetCpuCacheSize"].val = cache_size_

\* C6 witness: hw.l3cachesize yields 0, hw.l2cachesize yields 4194304, and
\* GetCpuCacheSize() has returned 4194304.
C6_Witness ==
  /\ platform = "OSX"
  /\ env.hw_l3cachesize = Ok(U64(0, 0))
  /\ env.hw_l2cachesize = Ok(U64(0, 4194304))
  /\ consulted = <<"hw.l3cachesize", "hw.l2cachesize">>
  /\ Called("GetCpuCacheSize")
  /\ ret["GetCpuCacheSize"].val = 4194304

\* C7: GetCpuCacheSize() is never negative, and the cpuid fallback yields the
\* unsigned field in bits 16..31 of ecx times 1024.
C7_CacheSizeNonNegative ==
  constructed =>
    /\ cache_size_ >= 0
    /\ (consulted # <<>> /\ consulted[Len(consulted)] = "cpuid"
        /\ AtLeastExtLeaf6(env.cpuid_80000000_eax))
         => cache_size_ = env.cpuid_80000006_ecx.hi * KB

-----------------------------------------------------------------------------
(* Lazily resolved fields: sources that fail, answer 0, or change their    *)
(* answer between calls (SpecLazy)                                         *)

\* "~Mhz" as DWORD.
RegistryMHz == {U32(0), U32(2400)}

\* Bytes of physical memory (ullTotalPhys, "hw.memsize").  The code looks at
\* the sign and at zero only, so small sizes stand for the real ones.
MemorySizes == {0, 8192}

\* sysconf(_SC_PHYS_PAGES), sysconf(_SC_PAGESIZE): -1 is the failure.
PageCounts == {-1, 0, 2}
PageSizes  == {-1, 4096}

\* "cpu MHz" of /proc/cpuinfo, and cpuinfo_max_freq in kHz.
ProcMHz  == {2400}
MaxFreqs == {-1, 999, 2400000}

ModelNames == {"", "MacBookAir1,1"}

\* The registers of leaf 0: all zero, and "GenuineIntel".
VendorRegisters ==
  { [ebx |-> <<0, 0, 0, 0>>, edx |-> <<0, 0, 0, 0>>, ecx |-> <<0, 0, 0, 0>>],
    [ebx |-> <<71, 101, 110, 117>>, edx |-> <<105, 110, 101, 73>>,
     ecx |-> <<110, 116, 101, 108>>] }

\* The sources only the constructor reads.
ConstructionEnvs(p) ==
  IF p # "LINUX" THEN {NoEnv}
  ELSE { [NoEnv EXCEPT !.LoadFromSystem = ld, !.cpu_MHz = mhz,
                       !.ReadCpuMaxFreq = mf]
         : ld \in BOOLEAN, mhz \in {Fail(0)} \cup {Ok(n) : n \in ProcMHz},
           mf \in MaxFreqs }

\* The sources the lazy accessors read, and what each can answer.
LazySources(p) ==
  CASE p = "WIN32" -> {"RegOpenKeyEx", "RegQueryValueEx", "GlobalMemoryStatusEx"}
    [] Sysctl(p)   -> {"hw_cpufrequency_max", "hw_memsize", "hw_model"}
    [] OTHER       -> {"SC_PHYS_PAGES", "SC_PAGESIZE"}

Answers(s) ==
  CASE s = "RegOpenKeyEx"         -> BOOLEAN
    [] s = "RegQueryValueEx"      -> {Fail(U32(0))} \cup {Ok(n) : n \in RegistryMHz}
    [] s = "GlobalMemoryStatusEx" -> {Fail(0)} \cup {Ok(n) : n \in MemorySizes}
    [] s = "hw_cpufrequency_max"  -> {Fail([mhz |-> 0, hz |-> 0])}
                                       \cup {Ok(n) : n \in Frequencies}
    [] s = "hw_memsize"           -> {Fail(0)} \cup {Ok(n) : n \in MemorySizes}
    [] s = "hw_model"             -> {Fail("")} \cup {Ok(n) : n \in ModelNames}
    [] s = "SC_PHYS_PAGES"        -> PageCounts
    [] s = "SC_PAGESIZE"          -> PageSizes

\* e with the sources of the lazy accessors answering anything.
LazyEnvs(p, e) ==
  CASE p = "WIN32" ->
         { [e EXCEPT !.RegOpenKeyEx = op, !.RegQueryValueEx = q,
                     !.GlobalMemoryStatusEx = m]
           : op \in Answers("RegOpenKeyEx"), q \in Answers("RegQueryValueEx"),
             m \in Answers("GlobalMemoryStatusEx") }
    [] Sysctl(p) ->
         { [e EXCEPT !.hw_cpufrequency_max = f, !.hw_memsize = m, !.hw_model = mm]
           : f \in Answers("hw_cpufrequency_max"), m \in Answers("hw_memsize"),
             mm \in Answers("hw_model") }
    [] OTHER ->
         { [e EXCEPT !.SC_PHYS_PAGES = pg, !.SC_PAGESIZE = sz]
           : pg \in Answers("SC_PHYS_PAGES"), sz \in Answers("SC_PAGESIZE") }

VendorEnvs(e) == { [e EXCEPT !.cpuid_0 = v] : v \in VendorRegisters }

InitLazy ==
  /\ platform \in Platforms
  /\ cpu \in Cpus(platform)
  /\ env \in UNION { VendorEnvs(f) : f \in
               UNION { LazyEnvs(platform, e) : e \in ConstructionEnvs(platform) } }
  /\ Initialisers

\* One source of a lazy accessor answers differently from now on.
SourceChange ==
  /\ constructed
  /\ \E s \in LazySources(platform) : \E v \in Answers(s) \ {env[s]} :
       env' = [env EXCEPT ![s] = v]
  /\ UNCHANGED <<platform, cpu, constructed, fields, consulted, ret, gpu, thr>>

NextLazy ==
  \/ Construct
  \/ GetMaxCpuSpeed
  \/ GetMemorySize
  \/ GetMachineModel
  \/ GetCpuVendor
  \/ GetCpuCacheSize
  \/ SourceChange

SpecLazy == InitLazy /\ [][NextLazy]_vars

\* C2: GetMemorySize() returns -1 or a strictly positive value.
C2_MemoryErrorOrPositive ==
  Called("GetMemorySize") =>
    ret["GetMemorySize"].val = -1 \/ ret["GetMemorySize"].val > 0

\* C3: GetMaxCpuSpeed() returns -1 or a positive value, and the value it
\* leaves cached is never 0.
C3_SpeedErrorOrPositive ==
  Called("GetMaxCpuSpeed") =>
    /\ ret["GetMaxCpuSpeed"].val = -1 \/ ret["GetMaxCpuSpeed"].val > 0
    /\ cpu_speed_ # 0

StableAccessors == {"GetMaxCpuSpeed", "GetMemorySize", "GetMachineModel",
                    "GetCpuVendor", "GetCpuCacheSize"}

\* C4: once a stable accessor has returned v, sentinels included, every later
\* call returns v and no later call asks the platform source.
C4_StableAccessorsSticky ==
  [][\A a \in StableAccessors :
       Called(a) => ret'[a].val = ret[a].val /\ ~ret'[a].again]_vars

-----------------------------------------------------------------------------
(* SystemInfo::GetGpuInfo (SpecGpu) *)

\* GetProperty(port, name, int* value): the new *value, or old when nothing
\* is assigned.  prop is what IORegistryEntrySearchCFProperty finds.
IntPropertyAssigned(prop) == prop.type \in {"CFNumber", "CFData4"}
GetPropertyInt(prop, old) == IF IntPropertyAssigned(prop) THEN prop.val ELSE old

\* GetProperty(port, name, std::string* value)
StringPropertyAssigned(prop) == prop.type \in {"CFString", "CFData"}
GetPropertyString(prop, old) ==
  IF StringPropertyAssigned(prop) THEN prop.val ELSE old

\* driver_version: HIWORD and LOWORD of HighPart, then of LowPart.
DriverVersion(v) == <<v.HighPart.hi, v.HighPart.lo, v.LowPart.hi, v.LowPart.lo>>

\* The call on a non-null info: the result, the struct and the members
\* assigned.
GpuInfoCall(p, e, info) ==
  CASE p = "WIN32" ->
         IF e.d3d # "D3D_OK"
         THEN [result |-> FALSE, info |-> info, written |-> {}]
         ELSE [result |-> TRUE,
               info |-> [device_name    |-> e.identifier.DeviceName,
                         description    |-> e.identifier.Description,
                         vendor_id      |-> e.identifier.VendorId,
                         device_id      |-> e.identifier.DeviceId,
                         driver         |-> e.identifier.Driver,
                         driver_version |-> DriverVersion(e.identifier.DriverVersion)],
               written |-> DOMAIN info]
    [] p = "OSX" ->
         [result |-> TRUE,
          info |-> [info EXCEPT
                      !.vendor_id   = GetPropertyInt(e.iokit_vendor_id, @),
                      !.device_id   = GetPropertyInt(e.iokit_device_id, @),
                      !.description = GetPropertyString(e.iokit_model, @)],
          written |->
            (IF IntPropertyAssigned(e.iokit_vendor_id) THEN {"vendor_id"} ELSE {})
            \cup (IF IntPropertyAssigned(e.iokit_device_id) THEN {"device_id"} ELSE {})
            \cup (IF StringPropertyAssigned(e.iokit_model) THEN {"description"} ELSE {})]
    [] OTHER -> [result |-> FALSE, info |-> info, written |-> {}]

\* bool SystemInfo::GetGpuInfo(GpuInfo *info), called with NULL or with the
\* caller's struct.
GetGpuInfo ==
  /\ constructed
  /\ \E null \in BOOLEAN :
       gpu' = IF null
              THEN [gpu EXCEPT !.called = TRUE, !.null = TRUE,
                               !.result = FALSE, !.written = {}]
              ELSE LET r == GpuInfoCall(platform, env, gpu.info)
                   IN  [info |-> r.info, called |-> TRUE, null |-> FALSE,
                        result |-> r.result, written |-> r.written]
  /\ UNCHANGED <<platform, cpu, env, constructed, fields, consulted, ret, thr>>

\* What LoadLibrary / GetProcAddress / Direct3DCreate9 / GetAdapterIdentifier
\* come to; a build with EXCLUDE_D3D9 asks none of them.
D3dAnswers == {"EXCLUDE_D3D9", "no_d3d9_dll", "no_Direct3DCreate9", "no_IDirect3D9",
               "GetAdapterIdentifier_failed", "D3D_OK"}

\* A D3DADAPTER_IDENTIFIER9: vendor 0x10DE, driver version 9.18.13.4052.
Identifiers ==
  { [DeviceName |-> "\\\\.\\DISPLAY1", Description |-> "NVIDIA GeForce",
     VendorId |-> 4318, DeviceId |-> 1553, Driver |-> "nvd3dum.dll",
     DriverVersion |-> [HighPart |-> [hi |-> 9, lo |-> 18],
                        LowPart  |-> [hi |-> 13, lo |-> 4052]]] }

\* What IOKit finds for an integer property and for the "model" property.
IntProperties ==
  {[type |-> "absent", val |-> 0], [type |-> "CFString", val |-> 0],
   [type |-> "CFData", val |-> 0]}
  \cup [type : {"CFNumber", "CFData4"}, val : {4318}]
StringProperties ==
  {[type |-> "absent", val |-> ""], [type |-> "CFNumber", val |-> ""]}
  \cup [type : {"CFString", "CFData"}, val : {"NVIDIA GeForce"}]

GpuEnvs(p) ==
  CASE p = "WIN32" ->
         { [NoEnv EXCEPT !.d3d = d, !.identifier = i]
           : d \in D3dAnswers, i \in Identifiers }
    [] p = "OSX" ->
         { [NoEnv EXCEPT !.iokit_vendor_id = v, !.iokit_device_id = d,
                         !.iokit_model = m]
           : v \in IntProperties, d \in IntProperties, m \in StringProperties }
    [] OTHER -> {NoEnv}

InitGpu ==
  /\ platform \in Platforms
  /\ cpu \in Cpus(platform)
  /\ env \in GpuEnvs(platform)
  /\ Initialisers

NextGpu == Construct \/ GetGpuInfo

SpecGpu == InitGpu /\ [][NextGpu]_vars

\* C8: GetGpuInfo returns false for a null argument and when no adapter
\* information was obtained; true means vendor id, device id and description
\* were filled by the call; a null argument changes nothing.
C8_TrueMeansFilled ==
  gpu.called =>
    /\ gpu.null => ~gpu.result /\ gpu.written = {}
    /\ gpu.result => {"vendor_id", "device_id", "description"} \subseteq gpu.written

-----------------------------------------------------------------------------
(* GetMemorySize and GetMaxCpuSpeed called from several threads on one     *)
(* instance (SpecRace).  The accessors take no lock, so a call is a        *)
(* sequence of reads and writes of the field, interleaved with those of    *)
(* the other threads.                                                      *)

\* Threads sharing the instance.
NumThreads == 2

Threads == 1..NumThreads

RacedAccessors == {"GetMemorySize", "GetMaxCpuSpeed"}

Idle == [pc |-> "idle", op |-> "GetMemorySize", val |-> 0]

\* The field accessor op caches in.
Field(op) == IF op = "GetMemorySize" THEN memory_ ELSE cpu_speed_

\* thr with thread t at pc.
At(t, pc) == [thr EXCEPT ![t].pc = pc]

\* Thread t enters accessor op.
Call(t) ==
  /\ constructed
  /\ thr[t].pc \in {"idle", "done"}
  /\ \E op \in RacedAccessors : thr' = [thr EXCEPT ![t] = [pc |-> "test", op |-> op,
                                                          val |-> 0]]
  /\ UNCHANGED <<platform, cpu, env, constructed, fields, consulted, ret, gpu>>

\* if (memory_) ...   /   if (cpu_speed_) ...
TestCache(t) ==
  /\ thr[t].pc = "test"
  /\ thr' = At(t, IF Cached(Field(thr[t].op)) THEN "return" ELSE "lookup")
  /\ UNCHANGED <<platform, cpu, env, constructed, fields, consulted, ret, gpu>>

\* The platform's answer is stored in the field.  In GetMemorySize, OSX and
\* LINUX store it as it comes and test it afterwards.
Store(t) ==
  /\ thr[t].pc = "lookup"
  /\ IF thr[t].op = "GetMaxCpuSpeed"
     THEN /\ cpu_speed_' = MaxCpuSpeedLookup(platform, env)
          /\ thr' = At(t, "return")
          /\ UNCHANGED memory_
     ELSE /\ memory_' = CASE platform = "WIN32" -> TotalPhys(env)
                          [] Sysctl(platform)   -> MemsizeInto(env, memory_)
                          [] OTHER              -> PagesTimesSize(env)
          /\ thr' = At(t, IF platform = "WIN32" THEN "return" ELSE "normalize")
          /\ UNCHANGED cpu_speed_
  /\ UNCHANGED <<platform, cpu, env, constructed, physical_cpus_, logical_cpus_,
                 cache_size_, machine_model_, cpu_vendor_, consulted, ret, gpu>>

\* if (error || memory_ == 0) memory_ = -1;   /   if (memory_ < 0) memory_ = -1;
Normalize(t) ==
  /\ thr[t].pc = "normalize"
  /\ memory_' = IF Sysctl(platform) THEN ErrorOrZeroToError(env, memory_)
                                    ELSE NegativeToError(memory_)
  /\ thr' = At(t, "return")
  /\ UNCHANGED <<platform, cpu, env, constructed, physical_cpus_, logical_cpus_,
                 cache_size_, cpu_speed_, machine_model_, cpu_vendor_,
                 consulted, ret, gpu>>

\* return memory_;   /   return cpu_speed_;
Return(t) ==
  /\ thr[t].pc = "return"
  /\ thr' = [thr EXCEPT ![t].pc = "done", ![t].val = Field(thr[t].op)]
  /\ UNCHANGED <<platform, cpu, env, constructed, fields, consulted, ret, gpu>>

RaceEnvs(p) == UNION { LazyEnvs(p, e) : e \in ConstructionEnvs(p) }

InitRace ==
  /\ platform \in Platforms
  /\ cpu \in Cpus(platform)
  /\ env \in RaceEnvs(platform)
  /\ constructed = FALSE
  /\ physical_cpus_ = 1
  /\ logical_cpus_ = 1
  /\ cache_size_ = 0
  /\ cpu_speed_ = 0
  /\ memory_ = 0
  /\ machine_model_ = ""
  /\ cpu_vendor_ = <<>>
  /\ consulted = <<>>
  /\ ret = NoRet
  /\ gpu = NoGpu
  /\ thr = [t \in Threads |-> Idle]

NextRace ==
  \/ Construct
  \/ \E t \in Threads : Call(t)
  \/ \E t \in Threads : TestCache(t)
  \/ \E t \in Threads : Store(t)
  \/ \E t \in Threads : Normalize(t)
  \/ \E t \in Threads : Return(t)

SpecRace == InitRace /\ [][NextRace]_vars

\* What a call of op returns when no other thread runs: the constructor's
\* value if it is cached, the looked-up value otherwise.
Alone(op) ==
  IF op = "GetMemorySize" THEN MemorySizeLookup(platform, env, 0)
  ELSE LET built == { r.cpu_speed : r \in Constructor(platform, cpu, env) }
       IN  IF \E v \in built : Cached(v) THEN CHOOSE v \in built : Cached(v)
           ELSE MaxCpuSpeedLookup(platform, env)

\* C10: under every interleaving a call returns what a single-threaded call
\* returns; no caller sees a value stored but not yet normalised.
C10_RaceReturnsSingleThreadedValue ==
  \A t \in Threads : thr[t].pc = "done" => thr[t].val = Alone(thr[t].op)

=============================================================================
